---------------------------- MODULE Spec2Model ----------------------------
(***************************************************************************)
(* cpu-time: ProcessTime and ThreadTime over the two platform backends     *)
(* (clock_gettime.rs for unix, windows.rs for windows).                    *)
(*                                                                         *)
(* A u64 is kept at its full width: four 16-bit limbs, least significant   *)
(* first, so that the wrap-around of the windows tick conversion is the    *)
(* one the machine performs.                                               *)
(***************************************************************************)
EXTENDS Integers, Sequences, FiniteSets, TLC

(***************************************************************************)
(* u64 arithmetic                                                          *)
(***************************************************************************)
Limb == 2^16

U64Zero == <<0, 0, 0, 0>>

U64Max == <<Limb - 1, Limb - 1, Limb - 1, Limb - 1>>

\* A small non-negative integer (below 2^31) as a u64.
FromInt(n) == <<n % Limb, (n \div Limb) % Limb, 0, 0>>

\* a + b: the wrapped sum and whether the true sum left the 64 bits.
Add64(a, b) ==
    LET s1 == a[1] + b[1]
        s2 == a[2] + b[2] + (s1 \div Limb)
        s3 == a[3] + b[3] + (s2 \div Limb)
        s4 == a[4] + b[4] + (s3 \div Limb)
    IN  [val |-> <<s1 % Limb, s2 % Limb, s3 % Limb, s4 % Limb>>,
         overflow |-> s4 \div Limb # 0]

\* a * k for a small k: the wrapped product and whether it left the 64 bits.
Mul64(a, k) ==
    LET p1 == a[1] * k
        p2 == a[2] * k + (p1 \div Limb)
        p3 == a[3] * k + (p2 \div Limb)
        p4 == a[4] * k + (p3 \div Limb)
    IN  [val |-> <<p1 % Limb, p2 % Limb, p3 % Limb, p4 % Limb>>,
         overflow |-> p4 \div Limb # 0]

\* a - b: the wrapped difference and whether b > a.
Sub64(a, b) ==
    LET d1 == a[1] - b[1]
        d2 == a[2] - b[2] - (IF d1 < 0 THEN 1 ELSE 0)
        d3 == a[3] - b[3] - (IF d2 < 0 THEN 1 ELSE 0)
        d4 == a[4] - b[4] - (IF d3 < 0 THEN 1 ELSE 0)
    IN  [val |-> <<d1 % Limb, d2 % Limb, d3 % Limb, d4 % Limb>>,
         borrow |-> d4 < 0]

Lt64(a, b) == Sub64(a, b).borrow

Le64(a, b) == ~Lt64(b, a)

\* a / d and a % d for a divisor 0 < d < 2^15, by long division limb by limb.
DivModSmall(a, d) ==
    LET n4 == a[4]
        n3 == (n4 % d) * Limb + a[3]
        n2 == (n3 % d) * Limb + a[2]
        n1 == (n2 % d) * Limb + a[1]
    IN  [quot |-> <<n1 \div d, n2 \div d, n3 \div d, n4 \div d>>,
         rem |-> n1 % d]

\* a / d and a % d for a divisor 0 < d <= 10^9 that is below 2^15 or a
\* multiple of 1000 (the divisors here are 100, 10^7 and 10^9): dividing by
\* 1000 and then by d / 1000 is dividing by d.
RECURSIVE DivMod64(_, _)
DivMod64(a, d) ==
    IF d < 2^15 THEN DivModSmall(a, d)
    ELSE LET lo == DivModSmall(a, 1000)
             hi == DivMod64(lo.quot, d \div 1000)
         IN  [quot |-> hi.quot, rem |-> lo.rem + 1000 * hi.rem]

(***************************************************************************)
(* std::time::Duration: whole seconds (u64) and nanoseconds below 10^9.    *)
(***************************************************************************)
NANOS_PER_SEC == 1000000000

ZeroDuration == [secs |-> U64Zero, nanos |-> 0]

\* The value of a call that did not return one.
NoDuration == [secs |-> U64Zero, nanos |-> -1]

\* Duration::new(secs, nanos): nanoseconds of a second or more carry into
\* the seconds; the carry leaving the u64 panics.
DurationNew(secs, nanos) ==
    LET s == Add64(secs, FromInt(nanos \div NANOS_PER_SEC))
    IN  IF s.overflow
        THEN [panic |-> TRUE, dur |-> NoDuration]
        ELSE [panic |-> FALSE,
              dur |-> [secs |-> s.val, nanos |-> nanos % NANOS_PER_SEC]]

DurationLe(a, b) ==
    \/ Lt64(a.secs, b.secs)
    \/ a.secs = b.secs /\ a.nanos <= b.nanos

\* Duration - Duration: checked_sub, which panics ("overflow when subtracting
\* durations") when the right operand is the larger one.
DurationSub(a, b) ==
    LET s == Sub64(a.secs, b.secs)
    IN  IF s.borrow THEN [panic |-> TRUE, dur |-> NoDuration]
        ELSE IF a.nanos >= b.nanos
        THEN [panic |-> FALSE,
              dur |-> [secs |-> s.val, nanos |-> a.nanos - b.nanos]]
        ELSE IF s.val = U64Zero THEN [panic |-> TRUE, dur |-> NoDuration]
        ELSE [panic |-> FALSE,
              dur |-> [secs |-> Sub64(s.val, FromInt(1)).val,
                       nanos |-> a.nanos + NANOS_PER_SEC - b.nanos]]

(***************************************************************************)
(* State                                                                   *)
(***************************************************************************)
VARIABLES
    backend,         \* "unix" or "windows": the one module lib.rs compiles in
    overflowChecks,  \* the build panics on u64 overflow (debug) or wraps
    procCpu,         \* OS: CPU time of the whole process
    thrCpu,          \* OS: CPU time of each thread
    held,            \* the timestamps each thread holds
    res,             \* the last call, or hand-over of its Duration, and
                     \* how it ended
    nSamples,        \* timestamps sampled so far
    nRuns            \* clock advances so far

vars == <<backend, overflowChecks, procCpu, thrCpu, held, res, nSamples,
          nRuns>>

(***************************************************************************)
(* The operating system's CPU accounting, read by both backends.           *)
(* A CPU time is kept as kernel-mode and user-mode 100ns ticks plus the    *)
(* nanoseconds below one tick, which only the unix clock reports.          *)
(***************************************************************************)
TICKS_PER_SEC == 10000000

NANOS_PER_TICK == 100

ZeroCpu == [kernel |-> U64Zero, user |-> U64Zero, sub |-> 0]

\* The CPU time `c` after `ns` more nanoseconds spent in `mode`.
Advance(c, mode, ns) ==
    LET whole == FromInt((c.sub + ns) \div NANOS_PER_TICK)
    IN  [kernel |-> IF mode = "kernel" THEN Add64(c.kernel, whole).val
                    ELSE c.kernel,
         user   |-> IF mode = "user" THEN Add64(c.user, whole).val
                    ELSE c.user,
         sub    |-> (c.sub + ns) % NANOS_PER_TICK]

\* clock_gettime(clk_id, &mut time) called on thread t: -1 on failure, leaving `time` as the
\* caller initialised it; otherwise 0 and the clock's seconds + nanoseconds.
clock_gettime(clk_id, t, fails) ==
    IF fails
    THEN [ret |-> -1, time |-> [tv_sec |-> U64Zero, tv_nsec |-> 0]]
    ELSE LET c == IF clk_id = "CLOCK_PROCESS_CPUTIME_ID" THEN procCpu
                  ELSE thrCpu[t]
             q == DivMod64(Add64(c.kernel, c.user).val, TICKS_PER_SEC)
         IN  [ret |-> 0,
              time |-> [tv_sec |-> q.quot,
                        tv_nsec |-> q.rem * NANOS_PER_TICK + c.sub]]

\* A 64-bit tick count as a FILETIME: two DWORDs, each two 16-bit limbs.
FileTime(ticks) ==
    [dwLowDateTime |-> <<ticks[1], ticks[2]>>,
     dwHighDateTime |-> <<ticks[3], ticks[4]>>]

zero == [dwLowDateTime |-> <<0, 0>>, dwHighDateTime |-> <<0, 0>>]

\* GetProcessTimes(GetCurrentProcess(), ..): 0 on failure, leaving the out
\* parameters untouched; otherwise nonzero and the kernel and user times.
GetProcessTimes(fails) ==
    IF fails
    THEN [ok |-> 0, kernel_time |-> zero, user_time |-> zero]
    ELSE [ok |-> 1, kernel_time |-> FileTime(procCpu.kernel),
          user_time |-> FileTime(procCpu.user)]

\* GetThreadTimes(GetCurrentThread(), ..) called on thread t.
GetThreadTimes(t, fails) ==
    IF fails
    THEN [ok |-> 0, kernel_time |-> zero, user_time |-> zero]
    ELSE [ok |-> 1, kernel_time |-> FileTime(thrCpu[t].kernel),
          user_time |-> FileTime(thrCpu[t].user)]

(***************************************************************************)
(* Results.  A call ends "ok" (a value), "err" (an io::Error) or "panic".  *)
(* queries counts the OS queries the call made.                            *)
(***************************************************************************)
Ok(d, q) == [outcome |-> "ok", dur |-> d, queries |-> q, msg |-> ""]

Err(q) == [outcome |-> "err", dur |-> NoDuration, queries |-> q,
           msg |-> "last_os_error"]

Panic(m, q) == [outcome |-> "panic", dur |-> NoDuration, queries |-> q,
                msg |-> m]

\* The result of Duration::new as the result of the call around it.
OfNew(n, q) ==
    IF n.panic THEN Panic("overflow in Duration::new", q) ELSE Ok(n.dur, q)

\* Result::expect(msg): the value, or a panic carrying msg.
Expect(r, m) == IF r.outcome = "err" THEN Panic(m, r.queries) ELSE r

\* The queries of a call that made q more before this one.
After(r, q) == [r EXCEPT !.queries = @ + q]

\* The message of the panic of Duration - Duration.
SUBTRACTION_PANIC == "overflow when subtracting durations"

\* self.0 - timestamp.0
Minus(a, b) ==
    LET d == DurationSub(a, b)
    IN  IF d.panic THEN Panic(SUBTRACTION_PANIC, 0)
        ELSE Ok(d.dur, 0)

\* A fresh sample as the receiver of a method call.
Sampled(r) == [dur |-> r.dur]

(***************************************************************************)
(* clock_gettime.rs: impl ProcessTime.  t is the calling thread; fails is whether *)
(* the OS query of this call fails.                                        *)
(***************************************************************************)
UnixProcessTime_try_now(t, fails) ==
    LET r == clock_gettime("CLOCK_PROCESS_CPUTIME_ID", t, fails)
    IN  IF r.ret = -1 THEN Err(1)
        \* tv_sec as u64, tv_nsec as u32: the clock's values are in range
        ELSE OfNew(DurationNew(r.time.tv_sec, r.time.tv_nsec), 1)

UnixProcessTime_now(t, fails) ==
    Expect(UnixProcessTime_try_now(t, fails), "CLOCK_PROCESS_CPUTIME_ID unsupported")

\* duration_since written with saturating_sub: a wrong-order call returns
\* zero instead of panicking.
UnixProcessTime_duration_since_saturating(self, timestamp) ==
    LET d == DurationSub(self.dur, timestamp.dur)
    IN  IF d.panic THEN Ok(ZeroDuration, 0) ELSE Ok(d.dur, 0)

UnixProcessTime_duration_since(self, timestamp) == Minus(self.dur, timestamp.dur)

UnixProcessTime_as_duration(self) == Ok(self.dur, 0)

UnixProcessTime_try_elapsed(self, t, fails) ==
    LET r == UnixProcessTime_try_now(t, fails)
    IN  IF r.outcome # "ok" THEN r
        ELSE After(UnixProcessTime_duration_since(Sampled(r), self), r.queries)

UnixProcessTime_elapsed(self, t, fails) ==
    LET r == UnixProcessTime_now(t, fails)
    IN  IF r.outcome # "ok" THEN r
        ELSE After(UnixProcessTime_duration_since(Sampled(r), self), r.queries)

(***************************************************************************)
(* clock_gettime.rs: impl ThreadTime.  t is the calling thread; fails is whether *)
(* the OS query of this call fails.                                        *)
(***************************************************************************)
UnixThreadTime_try_now(t, fails) ==
    LET r == clock_gettime("CLOCK_THREAD_CPUTIME_ID", t, fails)
    IN  IF r.ret = -1 THEN Err(1)
        \* tv_sec as u64, tv_nsec as u32: the clock's values are in range
        ELSE OfNew(DurationNew(r.time.tv_sec, r.time.tv_nsec), 1)

UnixThreadTime_now(t, fails) ==
    Expect(UnixThreadTime_try_now(t, fails), "CLOCK_PROCESS_CPUTIME_ID unsupported")

UnixThreadTime_duration_since(self, timestamp) == Minus(self.dur, timestamp.dur)

UnixThreadTime_as_duration(self) == Ok(self.dur, 0)

UnixThreadTime_try_elapsed(self, t, fails) ==
    LET r == UnixThreadTime_try_now(t, fails)
    IN  IF r.outcome # "ok" THEN r
        ELSE After(UnixThreadTime_duration_since(Sampled(r), self), r.queries)

UnixThreadTime_elapsed(self, t, fails) ==
    LET r == UnixThreadTime_now(t, fails)
    IN  IF r.outcome # "ok" THEN r
        ELSE After(UnixThreadTime_duration_since(Sampled(r), self), r.queries)

(***************************************************************************)
(* windows.rs                                                              *)
(***************************************************************************)
\* (dwHighDateTime as u64) << 32) + dwLowDateTime as u64
Ticks(ft) ==
    Add64(<<0, 0, ft.dwHighDateTime[1], ft.dwHighDateTime[2]>>,
          <<ft.dwLowDateTime[1], ft.dwLowDateTime[2], 0, 0>>).val

\* kns100 + uns100 and (kns100 + uns100) * 100 are u64 operations: where the
\* true value leaves the 64 bits, a build with overflow checks panics and a
\* build without them goes on with the wrapped value.
to_duration(kernel_time, user_time) ==
    LET kns100 == Ticks(kernel_time)
        uns100 == Ticks(user_time)
        sum    == Add64(kns100, uns100)
        scaled == Mul64(sum.val, NANOS_PER_TICK)
    IN  IF overflowChecks /\ sum.overflow
        THEN Panic("attempt to add with overflow", 0)
        ELSE IF overflowChecks /\ scaled.overflow
        THEN Panic("attempt to multiply with overflow", 0)
        \* "as u32" of a remainder below 10^9 changes nothing
        ELSE OfNew(DurationNew(DivMod64(sum.val, TICKS_PER_SEC).quot,
                               DivMod64(scaled.val, NANOS_PER_SEC).rem), 0)

(***************************************************************************)
(* windows.rs: impl ProcessTime.                                            *)
(***************************************************************************)
WinProcessTime_try_now(t, fails) ==
    LET r == GetProcessTimes(fails)
    IN  IF r.ok = 0 THEN Err(1)
        ELSE After(to_duration(r.kernel_time, r.user_time), 1)

WinProcessTime_now(t, fails) ==
    Expect(WinProcessTime_try_now(t, fails), "GetProcessTimes failed")

\* duration_since with its operands exchanged: timestamp.0 - self.0.
WinProcessTime_duration_since_swapped(self, timestamp) ==
    Minus(timestamp.dur, self.dur)

WinProcessTime_duration_since(self, timestamp) == Minus(self.dur, timestamp.dur)

WinProcessTime_as_duration(self) == Ok(self.dur, 0)

WinProcessTime_try_elapsed(self, t, fails) ==
    LET r == WinProcessTime_try_now(t, fails)
    IN  IF r.outcome # "ok" THEN r
        ELSE After(WinProcessTime_duration_since(Sampled(r), self), r.queries)

WinProcessTime_elapsed(self, t, fails) ==
    LET r == WinProcessTime_now(t, fails)
    IN  IF r.outcome # "ok" THEN r
        ELSE After(WinProcessTime_duration_since(Sampled(r), self), r.queries)

(***************************************************************************)
(* windows.rs: impl ThreadTime.                                            *)
(***************************************************************************)
WinThreadTime_try_now(t, fails) ==
    LET r == GetThreadTimes(t, fails)
    IN  IF r.ok = 0 THEN Err(1)
        ELSE After(to_duration(r.kernel_time, r.user_time), 1)

WinThreadTime_now(t, fails) ==
    Expect(WinThreadTime_try_now(t, fails), "GetThreadTimes failed")

WinThreadTime_duration_since(self, timestamp) == Minus(self.dur, timestamp.dur)

WinThreadTime_as_duration(self) == Ok(self.dur, 0)

WinThreadTime_try_elapsed(self, t, fails) ==
    LET r == WinThreadTime_try_now(t, fails)
    IN  IF r.outcome # "ok" THEN r
        ELSE After(WinThreadTime_duration_since(Sampled(r), self), r.queries)

WinThreadTime_elapsed(self, t, fails) ==
    LET r == WinThreadTime_now(t, fails)
    IN  IF r.outcome # "ok" THEN r
        ELSE After(WinThreadTime_duration_since(Sampled(r), self), r.queries)

(***************************************************************************)
(* Send and Sync.  ProcessTime(Duration) is both; ThreadTime carries a     *)
(* PhantomData<Rc<()>>, and Rc is neither.                                 *)
(***************************************************************************)
\* ThreadTime without its PhantomData<Rc<()>> field: Send like ProcessTime.
UnixIsSend_unmarked(kind) == kind \in {"ProcessTime", "ThreadTime"}

UnixIsSend(kind) == kind = "ProcessTime"

UnixIsSync(kind) == kind = "ProcessTime"

WinIsSend(kind) == kind = "ProcessTime"

WinIsSync(kind) == kind = "ProcessTime"

\* A value of the type can reach another thread: moved or copied there
\* (Send), or read there through a shared reference (Sync).
CanCross(kind) ==
    IF backend = "unix" THEN UnixIsSend(kind) \/ UnixIsSync(kind)
    ELSE WinIsSend(kind) \/ WinIsSync(kind)

(***************************************************************************)
(* lib.rs: the one backend the build selects stands behind the public      *)
(* names.                                                                  *)
(***************************************************************************)
try_now(kind, t, fails) ==
    CASE backend = "unix" /\ kind = "ProcessTime" ->
            UnixProcessTime_try_now(t, fails)
      [] backend = "unix" /\ kind = "ThreadTime" ->
            UnixThreadTime_try_now(t, fails)
      [] backend = "windows" /\ kind = "ProcessTime" ->
            WinProcessTime_try_now(t, fails)
      [] backend = "windows" /\ kind = "ThreadTime" ->
            WinThreadTime_try_now(t, fails)

now(kind, t, fails) ==
    CASE backend = "unix" /\ kind = "ProcessTime" ->
            UnixProcessTime_now(t, fails)
      [] backend = "unix" /\ kind = "ThreadTime" ->
            UnixThreadTime_now(t, fails)
      [] backend = "windows" /\ kind = "ProcessTime" ->
            WinProcessTime_now(t, fails)
      [] backend = "windows" /\ kind = "ThreadTime" ->
            WinThreadTime_now(t, fails)

try_elapsed(kind, self, t, fails) ==
    CASE backend = "unix" /\ kind = "ProcessTime" ->
            UnixProcessTime_try_elapsed(self, t, fails)
      [] backend = "unix" /\ kind = "ThreadTime" ->
            UnixThreadTime_try_elapsed(self, t, fails)
      [] backend = "windows" /\ kind = "ProcessTime" ->
            WinProcessTime_try_elapsed(self, t, fails)
      [] backend = "windows" /\ kind = "ThreadTime" ->
            WinThreadTime_try_elapsed(self, t, fails)

elapsed(kind, self, t, fails) ==
    CASE backend = "unix" /\ kind = "ProcessTime" ->
            UnixProcessTime_elapsed(self, t, fails)
      [] backend = "unix" /\ kind = "ThreadTime" ->
            UnixThreadTime_elapsed(self, t, fails)
      [] backend = "windows" /\ kind = "ProcessTime" ->
            WinProcessTime_elapsed(self, t, fails)
      [] backend = "windows" /\ kind = "ThreadTime" ->
            WinThreadTime_elapsed(self, t, fails)

duration_since(kind, self, timestamp) ==
    CASE backend = "unix" /\ kind = "ProcessTime" ->
            UnixProcessTime_duration_since(self, timestamp)
      [] backend = "unix" /\ kind = "ThreadTime" ->
            UnixThreadTime_duration_since(self, timestamp)
      [] backend = "windows" /\ kind = "ProcessTime" ->
            WinProcessTime_duration_since(self, timestamp)
      [] backend = "windows" /\ kind = "ThreadTime" ->
            WinThreadTime_duration_since(self, timestamp)

as_duration(kind, self) ==
    CASE backend = "unix" /\ kind = "ProcessTime" ->
            UnixProcessTime_as_duration(self)
      [] backend = "unix" /\ kind = "ThreadTime" ->
            UnixThreadTime_as_duration(self)
      [] backend = "windows" /\ kind = "ProcessTime" ->
            WinProcessTime_as_duration(self)
      [] backend = "windows" /\ kind = "ThreadTime" ->
            WinThreadTime_as_duration(self)

(***************************************************************************)
(* Bounds and inputs                                                       *)
(***************************************************************************)
NumThreads == 2

MaxSamples == 2

MaxRuns == 1

Threads == 1 .. NumThreads

Kinds == {"ProcessTime", "ThreadTime"}

\* The largest tick count whose hundredfold still fits a u64:
\* 184467440737095516 ticks, 584 years of CPU time summed over the
\* process's threads.
EdgeTicks == DivMod64(U64Max, NANOS_PER_TICK).quot

\* A process at the edge: 100 s spent in user mode, the rest in kernel mode.
EdgeCpu ==
    [kernel |-> Sub64(EdgeTicks, FromInt(NANOS_PER_SEC)).val,
     user   |-> FromInt(NANOS_PER_SEC),
     sub    |-> 0]

\* A young process: 50 ns short of one tick below a full second.
YoungCpu ==
    [kernel |-> FromInt(TICKS_PER_SEC - 3), user |-> FromInt(1), sub |-> 50]

\* The process's CPU time when the first call is made.
StartCpu == {YoungCpu, EdgeCpu}

\* What a thread consumes between two calls: one tick in kernel mode, or a
\* tick and a half in user mode.
Slices == {[mode |-> "kernel", ns |-> NANOS_PER_TICK],
           [mode |-> "user", ns |-> NANOS_PER_TICK + 50]}

\* A timestamp: its type and the Duration it wraps, and for the properties
\* the thread that sampled it and how far the clocks had advanced by then.
NoTimestamp == [kind |-> "none", dur |-> NoDuration, origin |-> 0, at |-> 0]

NoCall == [op |-> "none", thread |-> 0, kind |-> "none", fails |-> FALSE,
           outcome |-> "none", dur |-> NoDuration, queries |-> 0,
           msg |-> "", self |-> NoTimestamp, arg |-> NoTimestamp,
           cpu |-> ZeroCpu]

\* The CPU time that a query of thread t for a timestamp of type `kind` is
\* about: the process's, or the calling thread's.
Measured(kind, t) == IF kind = "ProcessTime" THEN procCpu ELSE thrCpu[t]

\* The record of a call that ended as r: the call, its result, and for the
\* properties the CPU time its query was about (none: ZeroCpu).
Call(op, t, kind, fails, r, self, arg) ==
    [op |-> op, thread |-> t, kind |-> kind, fails |-> fails,
     outcome |-> r.outcome, dur |-> r.dur, queries |-> r.queries,
     msg |-> r.msg, self |-> self, arg |-> arg,
     cpu |-> IF r.queries = 0 \/ fails THEN ZeroCpu ELSE Measured(kind, t)]

TypeOK ==
    /\ backend \in {"unix", "windows"}
    /\ overflowChecks \in BOOLEAN
    /\ nSamples \in 0 .. MaxSamples
    /\ nRuns \in 0 .. MaxRuns
    /\ \A t \in Threads : Cardinality(held[t]) <= MaxSamples

\* Only windows.rs has arithmetic that the build's overflow checks decide.
Init ==
    /\ backend \in {"unix", "windows"}
    /\ overflowChecks \in (IF backend = "windows" THEN BOOLEAN ELSE {TRUE})
    /\ procCpu \in StartCpu
    /\ thrCpu = [t \in Threads |-> ZeroCpu]
    /\ held = [t \in Threads |-> {}]
    /\ res = NoCall
    /\ nSamples = 0
    /\ nRuns = 0

\* Thread t runs and consumes a slice of CPU time.
Run(t, slice) ==
    /\ nRuns < MaxRuns
    /\ nRuns' = nRuns + 1
    /\ thrCpu' = [thrCpu EXCEPT ![t] = Advance(@, slice.mode, slice.ns)]
    /\ procCpu' = Advance(procCpu, slice.mode, slice.ns)
    /\ UNCHANGED <<backend, overflowChecks, held, res, nSamples>>

\* Thread t calls ProcessTime::try_now() or ThreadTime::try_now().
CallTryNow(t, kind, fails) ==
    /\ nSamples < MaxSamples
    /\ LET r == try_now(kind, t, fails)
           ts == [kind |-> kind, dur |-> r.dur, origin |-> t, at |-> nRuns]
       IN  /\ res' = Call("try_now", t, kind, fails, r, NoTimestamp,
                          NoTimestamp)
           /\ held' = IF r.outcome = "ok"
                      THEN [held EXCEPT ![t] = @ \cup {ts}] ELSE held
           /\ nSamples' = IF r.outcome = "ok" THEN nSamples + 1
                          ELSE nSamples
    /\ UNCHANGED <<backend, overflowChecks, procCpu, thrCpu, nRuns>>

\* Thread t calls ProcessTime::now() or ThreadTime::now().
CallNow(t, kind, fails) ==
    /\ nSamples < MaxSamples
    /\ LET r == now(kind, t, fails)
           ts == [kind |-> kind, dur |-> r.dur, origin |-> t, at |-> nRuns]
       IN  /\ res' = Call("now", t, kind, fails, r, NoTimestamp, NoTimestamp)
           /\ held' = IF r.outcome = "ok"
                      THEN [held EXCEPT ![t] = @ \cup {ts}] ELSE held
           /\ nSamples' = IF r.outcome = "ok" THEN nSamples + 1
                          ELSE nSamples
    /\ UNCHANGED <<backend, overflowChecks, procCpu, thrCpu, nRuns>>

\* Thread t calls self.try_elapsed() on a timestamp it holds.
CallTryElapsed(t, self, fails) ==
    /\ self \in held[t]
    /\ LET r == try_elapsed(self.kind, self, t, fails)
       IN  res' = Call("try_elapsed", t, self.kind, fails, r, self,
                       NoTimestamp)
    /\ UNCHANGED <<backend, overflowChecks, procCpu, thrCpu, held, nSamples,
                   nRuns>>

\* Thread t calls self.elapsed() on a timestamp it holds.
CallElapsed(t, self, fails) ==
    /\ self \in held[t]
    /\ LET r == elapsed(self.kind, self, t, fails)
       IN  res' = Call("elapsed", t, self.kind, fails, r, self, NoTimestamp)
    /\ UNCHANGED <<backend, overflowChecks, procCpu, thrCpu, held, nSamples,
                   nRuns>>

\* Thread t calls self.duration_since(timestamp) on two timestamps of one
\* type that it holds, in either order.
CallDurationSince(t, self, timestamp) ==
    /\ self \in held[t]
    /\ timestamp \in held[t]
    /\ self.kind = timestamp.kind
    /\ LET r == duration_since(self.kind, self, timestamp)
       IN  res' = Call("duration_since", t, self.kind, FALSE, r, self,
                       timestamp)
    /\ UNCHANGED <<backend, overflowChecks, procCpu, thrCpu, held, nSamples,
                   nRuns>>

\* Thread t calls self.as_duration() on a timestamp it holds.
CallAsDuration(t, self) ==
    /\ self \in held[t]
    /\ LET r == as_duration(self.kind, self)
       IN  res' = Call("as_duration", t, self.kind, FALSE, r, self,
                       NoTimestamp)
    /\ UNCHANGED <<backend, overflowChecks, procCpu, thrCpu, held, nSamples,
                   nRuns>>

\* A timestamp of thread `from` reaches thread `to`: only a type that is Send
\* or Sync compiles here.
Transfer(from, to, ts) ==
    /\ from # to
    /\ ts \in held[from]
    /\ CanCross(ts.kind)
    /\ ts \notin held[to]
    /\ held' = [held EXCEPT ![to] = @ \cup {ts}]
    /\ UNCHANGED <<backend, overflowChecks, procCpu, thrCpu, res, nSamples,
                   nRuns>>

\* The Duration the last call returned reaches thread `to`: a plain value,
\* whatever timestamp it was derived from.
TransferDuration(to) ==
    /\ res.op \in {"try_elapsed", "elapsed", "duration_since", "as_duration"}
    /\ res.outcome = "ok"
    /\ to # res.thread
    /\ res' = [res EXCEPT !.op = "hand_over", !.thread = to]
    /\ UNCHANGED <<backend, overflowChecks, procCpu, thrCpu, held, nSamples,
                   nRuns>>

\* The calls the threads of T can make, an OS query failing or not as F
\* allows.
Calls(T, F) ==
    \/ \E t \in T, kind \in Kinds, fails \in F : CallTryNow(t, kind, fails)
    \/ \E t \in T, kind \in Kinds, fails \in F : CallNow(t, kind, fails)
    \/ \E t \in T, fails \in F : \E self \in held[t] :
          CallTryElapsed(t, self, fails)
    \/ \E t \in T, fails \in F : \E self \in held[t] :
          CallElapsed(t, self, fails)
    \/ \E t \in T : \E self \in held[t], timestamp \in held[t] :
          CallDurationSince(t, self, timestamp)
    \/ \E t \in T : \E self \in held[t] : CallAsDuration(t, self)

\* A single-threaded program: every call, succeeding or failing, from every
\* start, the thread consuming CPU time between its calls.
Next ==
    \/ \E slice \in Slices : Run(1, slice)
    \/ Calls({1}, BOOLEAN)

Spec == Init /\ [][Next]_vars

\* A program of several threads, whose values travel between them as far as
\* their types allow.  The threads have consumed different amounts of CPU
\* time by the first call.
InitThreads ==
    /\ backend \in {"unix", "windows"}
    /\ overflowChecks = TRUE
    /\ procCpu = YoungCpu
    /\ thrCpu = [t \in Threads |-> Advance(ZeroCpu, "user", t * 150)]
    /\ held = [t \in Threads |-> {}]
    /\ res = NoCall
    /\ nSamples = 0
    /\ nRuns = 0

NextThreads ==
    \/ Calls(Threads, {FALSE})
    \/ \E from \in Threads, to \in Threads : \E ts \in held[from] :
          Transfer(from, to, ts)
    \/ \E to \in Threads : TransferDuration(to)

SpecThreads == InitThreads /\ [][NextThreads]_vars

(***************************************************************************)
(* Properties                                                              *)
(***************************************************************************)
Samplers == {"try_now", "now"}

Elapsers == {"try_elapsed", "elapsed"}

\* a + b in seconds and nanoseconds, for two Durations whose sum fits.
DurationPlus(a, b) ==
    [secs  |-> Add64(Add64(a.secs, b.secs).val,
                     FromInt((a.nanos + b.nanos) \div NANOS_PER_SEC)).val,
     nanos |-> (a.nanos + b.nanos) % NANOS_PER_SEC]

\* The Duration of exactly c.kernel + c.user ticks of 100 ns.
ExactTicks(c) ==
    LET q == DivMod64(Add64(c.kernel, c.user).val, TICKS_PER_SEC)
    IN  [secs |-> q.quot, nanos |-> q.rem * NANOS_PER_TICK]

\* C1: when the OS query fails, try_now and try_elapsed return an error
\* after exactly one query and produce no value, and now and elapsed panic
\* and return none; when the query succeeds, all four return normally.
C1_FailureSurfacesOnce ==
    /\ (res.op \in {"try_now", "try_elapsed"} /\ res.fails) =>
          res.outcome = "err" /\ res.queries = 1 /\ res.dur = NoDuration
    /\ (res.op \in {"now", "elapsed"} /\ res.fails) =>
          res.outcome = "panic" /\ res.queries = 1 /\ res.dur = NoDuration
    /\ (res.op \in Samplers \cup Elapsers /\ ~res.fails) =>
          res.outcome = "ok" /\ res.queries = 1

\* The diagnostics that name a thread-scope clock or call, and those that
\* name a process-scope one.
ThreadDiagnostics ==
    {"CLOCK_THREAD_CPUTIME_ID unsupported", "GetThreadTimes failed"}

ProcessDiagnostics ==
    {"CLOCK_PROCESS_CPUTIME_ID unsupported", "GetProcessTimes failed"}

\* C2: the panic of now() and elapsed() on a failed query names the
\* platform call of the capability that failed: ThreadTime's names the
\* thread-scope clock or call, ProcessTime's the process-scope one, and the
\* two differ.
C2_PanicNamesCapability ==
    (res.op \in {"now", "elapsed"} /\ res.fails) =>
        /\ res.kind = "ThreadTime" => res.msg \in ThreadDiagnostics
        /\ res.kind = "ProcessTime" => res.msg \in ProcessDiagnostics
        /\ now("ThreadTime", res.thread, TRUE).msg
              # now("ProcessTime", res.thread, TRUE).msg

\* C3 as stated: duration_since cannot fail; in either operand order it
\* makes no OS query and returns a Duration, never panicking.
C3_NeverFails ==
    res.op = "duration_since" => res.outcome = "ok" /\ res.queries = 0

\* C3 as amended: duration_since makes no OS query and never reports an
\* error; it returns the difference when self is not below the argument,
\* and panics, returning nothing, when self is below it.
C3_FailsOnlyByPanicOnWrongOrder ==
    res.op = "duration_since" =>
        /\ res.queries = 0
        /\ res.outcome # "err"
        /\ DurationLe(res.arg.dur, res.self.dur) =>
              res.outcome = "ok" /\ res.dur # NoDuration
        /\ ~DurationLe(res.arg.dur, res.self.dur) =>
              /\ res.outcome = "panic"
              /\ res.msg = SUBTRACTION_PANIC
              /\ res.dur = NoDuration

\* A wrong-order call has been made: self sampled before the argument, and
\* below it.
C3_Witness ==
    /\ res.op = "duration_since"
    /\ res.self.at < res.arg.at
    /\ ~DurationLe(res.arg.dur, res.self.dur)

\* C4: subtracting an earlier sample from a later one of the same clock never
\* underflows: elapsed, try_elapsed and later.duration_since(earlier) do not
\* panic in the subtraction, and what they return is a Duration.
C4_NoUnderflow ==
    /\ (res.op \in Elapsers
           \/ (res.op = "duration_since" /\ res.arg.at <= res.self.at)) =>
          res.msg # SUBTRACTION_PANIC
    /\ (res.op \in Elapsers \cup {"duration_since"} /\ res.outcome = "ok") =>
          res.dur.nanos \in 0 .. NANOS_PER_SEC - 1

\* C5: of two ProcessTime samples made on one thread, the later one's
\* as_duration() is not below the earlier one's.
C5_Monotonic ==
    \A t \in Threads : \A t1 \in held[t], t2 \in held[t] :
        ( /\ t1.kind = "ProcessTime" /\ t2.kind = "ProcessTime"
          /\ t1.origin = t2.origin
          /\ t1.at <= t2.at ) =>
            DurationLe(as_duration("ProcessTime", t1).dur,
                       as_duration("ProcessTime", t2).dur)

\* C6: on windows a successful sample is exactly (kernel + user) * 100 ns:
\* (kernel + user) div 10^7 seconds and ((kernel + user) mod 10^7) * 100
\* nanoseconds, whatever the tick counts.
C6_ExactConversion ==
    (backend = "windows" /\ res.op \in Samplers /\ ~res.fails) =>
        res.outcome = "ok" /\ res.dur = ExactTicks(res.cpu)

\* C7: a ThreadTime is only ever held by the thread that sampled it, and
\* every call on a ThreadTime is made by that thread on its own samples.
C7_ThreadConfined ==
    /\ \A t \in Threads : \A ts \in held[t] :
          ts.kind = "ThreadTime" => ts.origin = t
    /\ (res.kind = "ThreadTime"
          /\ res.op \in Elapsers \cup {"duration_since", "as_duration"}) =>
          /\ res.self.origin = res.thread
          /\ res.op = "duration_since" => res.arg.origin = res.thread

\* A thread holds a ProcessTime that another thread sampled, while the
\* Duration of a ThreadTime that it holds has reached another thread.
C7_Witness ==
    /\ \E t \in Threads : \E ts \in held[t] :
          ts.kind = "ProcessTime" /\ ts.origin # t
    /\ res.op = "hand_over"
    /\ res.kind = "ThreadTime"
    /\ res.thread # res.self.origin
    /\ res.self \in held[res.self.origin]

\* C9: where a is not below b, a.duration_since(b) is the Duration that
\* added to b.as_duration() gives a.as_duration(); t.duration_since(t) is
\* zero; and the timestamps of a duration_since or as_duration call are
\* held, unchanged, after it.
C9_Additive ==
    /\ (res.op = "duration_since"
          /\ DurationLe(as_duration(res.kind, res.arg).dur,
                        as_duration(res.kind, res.self).dur)) =>
          /\ res.outcome = "ok"
          /\ DurationPlus(res.dur, as_duration(res.kind, res.arg).dur)
                = as_duration(res.kind, res.self).dur
          /\ res.self = res.arg => res.dur = ZeroDuration
    /\ res.op = "as_duration" =>
          res.outcome = "ok" /\ res.dur = res.self.dur
    /\ res.op \in {"duration_since", "as_duration"} =>
          /\ res.self \in held[res.thread]
          /\ res.op = "duration_since" => res.arg \in held[res.thread]

\* A well-ordered subtraction that borrows from the seconds has been made.
C9_Witness ==
    /\ res.op = "duration_since"
    /\ res.outcome = "ok"
    /\ res.self.dur.nanos < res.arg.dur.nanos

\* The unix conversion of the CPU time c: the clock's seconds and
\* nanoseconds, taken as they are.
UnixConversion(c) ==
    LET q == DivMod64(Add64(c.kernel, c.user).val, TICKS_PER_SEC)
    IN  DurationNew(q.quot, q.rem * NANOS_PER_TICK + c.sub).dur

\* C10: the two backends' conversions of one CPU time agree to within the
\* windows resolution of 100 ns.
C10_BackendsAgree ==
    (res.op \in Samplers /\ ~res.fails) =>
        LET u == UnixConversion(res.cpu)
            w == to_duration(FileTime(res.cpu.kernel), FileTime(res.cpu.user))
        IN  /\ res.outcome = "ok"
            /\ res.dur = IF backend = "unix" THEN u ELSE w.dur
            /\ w.outcome = "ok"
            /\ DurationLe(w.dur, u)
            /\ DurationSub(u, w.dur).dur.secs = U64Zero
            /\ DurationSub(u, w.dur).dur.nanos < NANOS_PER_TICK

=============================================================================
